---- MODULE Spec2Model ----
(***************************************************************************)
(* Model of the /deploy slash command of slack-rcti                        *)
(* (src/src/handlers/jenkins_handler.py): the synchronous request handler  *)
(* jenkins_handler and the background monitoring thread                    *)
(* async_handle_builds with its polling helpers.                           *)
(*                                                                         *)
(* Strings the code inspects character by character (the command text, the *)
(* branch and commit values) are sequences of one-character strings.  The  *)
(* Jenkins server and the Slack API are the environment: every call to     *)
(* them takes its answer (a value or a raised exception) from \E.          *)
(***************************************************************************)
EXTENDS Integers, Sequences, FiniteSets, TLC

VARIABLES
    text,            \* request.form['text'] as received
    hpc,             \* position of jenkins_handler
    response,        \* kind of the HTTP response returned by jenkins_handler
    job_name,        \* args[0]
    branch_value,    \* branch_value of jenkins_handler
    params,          \* params dict: BRANCH / COMMIT entries
    downstream_jobs, \* names read from job.get_downstream_jobs()
    invokes,         \* the job.invoke calls made: kind "params" / "bare", and the answer
    queue_item,      \* TRUE once an invoke returned a queue item
    watchAttempt,    \* attempt index of wait_for_build_to_start
    build,           \* the root build returned by queue_item.get_build()
    threadStarted,   \* number of threading.Thread(...).start() calls
    caught,          \* kind of the exception that reached jenkins_handler's except clauses
    calls,           \* kinds of calls made so far to the CI system
    spc,             \* position of async_handle_builds
    attempt,         \* attempt index of the polling loop in progress
    dsIdx,           \* index into downstream_jobs of the descriptor in progress
    dsBuild,         \* build returned by monitor_downstream_build
    slack,           \* messages delivered to the conversation, in order
    rootStatus,      \* status the monitor has determined for the root build
    dsState,         \* correlation state of each downstream descriptor
    rootCI,          \* the CI system's own state of the root build
    dsCI,            \* the CI system's own state of the confirmed downstream build
    lastCheck,       \* outcome of the latest check_and_handle_input call
    accepted,        \* the CI system accepted an input submission for the build in hand
    postFailed,      \* a chat_postMessage call of the session raised
    seen,            \* what the descriptor's latest get_last_build returned
    pollRaised       \* the latest tick of a polling loop got an exception from the CI system

vars == <<text, hpc, response, job_name, branch_value, params, downstream_jobs,
          invokes, queue_item, watchAttempt, build, threadStarted, caught,
          calls, spc, attempt, dsIdx, dsBuild, slack, rootStatus, dsState, rootCI,
          dsCI, lastCheck, accepted, postFailed, seen, pollRaised>>

svars == <<spc, attempt, dsIdx, dsBuild, slack, rootStatus, dsState,
           rootCI, dsCI, lastCheck, accepted, postFailed, seen>>

hvars == <<text, hpc, response, job_name, branch_value, params, downstream_jobs,
           invokes, queue_item, watchAttempt, build, threadStarted, caught>>

(***************************************************************************)
(* Characters and words                                                    *)
(***************************************************************************)
LowerLetters == <<"a","b","c","d","e","f","g","h","i","j","k","l","m",
                  "n","o","p","q","r","s","t","u","v","w","x","y","z">>
UpperLetters == <<"A","B","C","D","E","F","G","H","I","J","K","L","M",
                  "N","O","P","Q","R","S","T","U","V","W","X","Y","Z">>
Digits == {"0","1","2","3","4","5","6","7","8","9"}

Range(s) == {s[i] : i \in DOMAIN s}

\* str.split() and str.strip() without argument cut at whitespace
Whitespace == {" "}

\* the character class of validate_branch_name: [a-zA-Z0-9_./\-]
BranchChars == Range(LowerLetters) \cup Range(UpperLetters) \cup Digits
                  \cup {"_", ".", "/", "-"}

\* the character class of validate_commit_hash: [a-f0-9]
HexChars == {"a","b","c","d","e","f"} \cup Digits

\* the repetition bounds of validate_commit_hash: {5,40}
MinCommitLen == 5
MaxCommitLen == 40

\* str.lower() on one character
lower_char(c) ==
    IF \E i \in DOMAIN UpperLetters : UpperLetters[i] = c
    THEN LowerLetters[CHOOSE i \in DOMAIN UpperLetters : UpperLetters[i] = c]
    ELSE c

lower(s) == [i \in DOMAIN s |-> lower_char(s[i])]

RECURSIVE lstrip(_)
lstrip(s) == IF s # <<>> /\ Head(s) \in Whitespace THEN lstrip(Tail(s)) ELSE s

RECURSIVE rstrip(_)
rstrip(s) ==
    IF s # <<>> /\ s[Len(s)] \in Whitespace
    THEN rstrip(SubSeq(s, 1, Len(s) - 1))
    ELSE s

strip(s) == rstrip(lstrip(s))

\* str.split(): the maximal runs of non-whitespace characters, in order
word_starts(s) ==
    {i \in DOMAIN s : s[i] \notin Whitespace /\ (i = 1 \/ s[i - 1] \in Whitespace)}

word_end(s, i) ==
    CHOOSE j \in i..Len(s) :
        /\ \A k \in i..j : s[k] \notin Whitespace
        /\ (j = Len(s) \/ s[j + 1] \in Whitespace)

split(s) ==
    LET starts == word_starts(s) IN
    [n \in 1..Cardinality(starts) |->
        LET i == CHOOSE i \in starts : Cardinality({k \in starts : k < i}) = n - 1
        IN SubSeq(s, i, word_end(s, i))]

\* position of the first c in s, 0 when there is none
index_of(s, c) ==
    IF \E i \in DOMAIN s : s[i] = c
    THEN CHOOSE i \in DOMAIN s : s[i] = c /\ \A j \in 1..(i - 1) : s[j] # c
    ELSE 0

\* arg.split('=', 1)
split_key(arg) == SubSeq(arg, 1, index_of(arg, "=") - 1)
split_value(arg) == SubSeq(arg, index_of(arg, "=") + 1, Len(arg))

(***************************************************************************)
(* Validation                                                              *)
(***************************************************************************)
\* a plausible slip: the pattern loses its anchor at the end
validate_branch_name_unanchored(branch) ==
    LET b == strip(branch) IN b # <<>> /\ b[1] \in BranchChars

validate_branch_name(branch) ==
    LET b == strip(branch) IN
    /\ b # <<>>
    /\ \A i \in DOMAIN b : b[i] \in BranchChars

\* a plausible slip: the pattern loses its upper repetition bound
validate_commit_hash_unbounded(commit) ==
    LET c == lower(commit) IN
    /\ Len(c) >= MinCommitLen
    /\ \A i \in DOMAIN c : c[i] \in HexChars

validate_commit_hash(commit) ==
    LET c == lower(commit) IN
    /\ Len(c) >= MinCommitLen
    /\ Len(c) <= MaxCommitLen
    /\ \A i \in DOMAIN c : c[i] \in HexChars

(***************************************************************************)
(* Command parsing: jenkins_handler up to its first CI call                *)
(***************************************************************************)
W_branch == <<"b","r","a","n","c","h">>
W_commit == <<"c","o","m","m","i","t">>

NoParams == [branch_specified |-> FALSE, BRANCH |-> <<>>,
             has_commit |-> FALSE, COMMIT |-> <<>>]

ParseStart == [outcome |-> "ok", branch_value |-> <<>>, params |-> NoParams]

\* the loop "for arg in args[1:]" with its two early returns; i indexes args
RECURSIVE parse_params(_, _, _)
parse_params(args, i, st) ==
    IF i > Len(args) THEN st
    ELSE IF index_of(args[i], "=") = 0 THEN parse_params(args, i + 1, st)
    ELSE LET key == split_key(args[i])
             value == split_value(args[i])
         IN  IF key = W_branch
             THEN IF ~validate_branch_name(value)
                  THEN [st EXCEPT !.outcome = "invalid_branch"]
                  ELSE parse_params(args, i + 1,
                         [st EXCEPT !.branch_value = strip(value),
                                    !.params.branch_specified = TRUE,
                                    !.params.BRANCH = value])
             ELSE IF key = W_commit
             THEN IF ~validate_commit_hash(value)
                  THEN [st EXCEPT !.outcome = "invalid_commit"]
                  ELSE parse_params(args, i + 1,
                         [st EXCEPT !.params.has_commit = TRUE,
                                    !.params.COMMIT = value])
             ELSE parse_params(args, i + 1, st)

\* jenkins_handler from its entry to the job lookup: the response it returns
\* at once ("none" when it goes on to the CI system) and what it has parsed
parse_command(available, txt) ==
    LET stripped == strip(txt)
        args == split(stripped)
        st == parse_params(args, 2, ParseStart)
        rejected(kind) == [response |-> kind, job_name |-> <<>>,
                           branch_value |-> <<>>, params |-> NoParams]
    IN  IF ~available THEN rejected("unavailable")
        ELSE IF stripped = <<>> THEN rejected("help")
        ELSE IF Len(args) < 2 THEN rejected("branch_required")
        ELSE IF st.outcome # "ok" THEN rejected(st.outcome)
        ELSE IF ~st.params.branch_specified THEN rejected("branch_required")
        ELSE [response |-> "none", job_name |-> strip(args[1]),
              branch_value |-> st.branch_value, params |-> st.params]

(***************************************************************************)
(* The CI system and the conversation as seen by the code                  *)
(***************************************************************************)
\* exceptions a CI call can raise: JenkinsAPIException whose text holds 401,
\* holds 403 (and not 401), holds neither; and any other Exception
ErrKinds == {"api401", "api403", "api", "error"}

\* a plausible slip: the 403 branch is missing
error_response_without_403(e) ==
    IF e = "api401" THEN "auth_failed"
    ELSE IF e \in {"api403", "api"} THEN "jenkins_error"
    ELSE "error"

\* the except clauses at the end of jenkins_handler
error_response(e) ==
    IF e = "api401" THEN "auth_failed"
    ELSE IF e = "api403" THEN "access_denied"
    ELSE IF e = "api" THEN "jenkins_error"
    ELSE "error"

\* kinds of CI call recorded in calls: "lookup", "discover", "invoke", "queue"
\* by jenkins_handler; "root", "input", "ds" by the monitoring thread

DownstreamNames == <<"k8s-svc-a", "k8s-svc-b", "k8s-svc-c", "k8s-svc-d">>

\* largest number of downstream jobs the root job declares
MaxDownstream == 2

\* the lists get_downstream_jobs can return
DownstreamLists == { SubSeq(DownstreamNames, 1, n) : n \in 0..MaxDownstream }

BuildNos == {42}
RootTimestamps == {2}
Timestamps == 1..3

NoBuild == [present |-> FALSE, buildno |-> 0, url_input |-> FALSE, ts |-> 0]

\* get_build_cause(build): None, or the upstream project and build it names
NoCause == [known |-> FALSE, project |-> <<>>, build |-> 0]

NotSeen == [build |-> NoBuild, cause |-> NoCause]

\* the Build objects a queue item can turn into; url_input: whether the
\* build's base URL holds "/input/"
RootBuilds == [present : {TRUE}, buildno : BuildNos, url_input : BOOLEAN,
               ts : RootTimestamps]


(***************************************************************************)
(* The requests                                                            *)
(***************************************************************************)
Hex(n) == [i \in 1..n |-> IF i % 2 = 1 THEN "a" ELSE "1"]

\* first word of a command text: svc-a
JobPool == { <<"s","v","c","-","a">> }

\* further words of a command text
ArgPool == {
    <<>>,
    <<"b","r","a","n","c","h","=","f","e","a","t","u","r","e","/","x">>,     \* branch=feature/x
    <<"b","r","a","n","c","h","=","b","a","d","!">>,     \* branch=bad!
    <<"b","r","a","n","c","h","=">>,       \* branch=
    <<"b","r","a","n","c","h","=","a","=","b">>,        \* branch=a=b
    <<"c","o","m","m","i","t","=","a","b","c","1","2">>,          \* commit=abc12
    <<"c","o","m","m","i","t","=","A","B","C","1","2">>,         \* commit=ABC12
    <<"c","o","m","m","i","t","=","a","b","c","d">>,          \* commit=abcd
    <<"c","o","m","m","i","t","=","a","b","c","1","g">>,          \* commit=abc1g
    W_commit \o <<"=">> \o Hex(MaxCommitLen),
    W_commit \o <<"=">> \o Hex(MaxCommitLen + 1),
    <<"e","n","v","=","p","r","o","d">> }      \* env=prod

\* largest number of words after the first in a command text
MaxArgs == 2

RECURSIVE join(_)
join(words) ==
    IF words = <<>> THEN <<>>
    ELSE IF Len(words) = 1 THEN words[1]
    ELSE words[1] \o <<" ">> \o join(Tail(words))

\* the command job=svc-a branch=bad branch!
ScenarioBadBranch ==
    join(<<<<"j","o","b","=","s","v","c","-","a">>, <<"b","r","a","n","c","h","=","b","a","d">>, <<"b","r","a","n","c","h","!">>>>)

CmdTexts ==
    { join(<<j>> \o a) : j \in JobPool,
                         a \in UNION {[1..n -> ArgPool] : n \in 0..MaxArgs} }
        \cup {<<>>, ScenarioBadBranch}

\* the request whose monitoring is followed: svc-a branch=feature/x
SessionTexts == { join(<<<<"s","v","c","-","a">>, <<"b","r","a","n","c","h","=","f","e","a","t","u","r","e","/","x">>>>) }

(***************************************************************************)
(* jenkins_handler                                                         *)
(***************************************************************************)
\* attempts of the handler's own wait_for_build_to_start(queue_item, max_attempts=5)
InitialStartAttempts == 5

NoCheck == [ret |-> "none", marker |-> FALSE, fetched |-> FALSE,
            submitted |-> FALSE, form |-> "-",
            data |-> [proceed |-> FALSE, crumb |-> FALSE, has_branch |-> FALSE,
                      BRANCH |-> <<>>],
            status |-> "-", after_accept |-> FALSE]

\* a request arrives
InitCmd ==
    /\ text \in CmdTexts
    /\ hpc = "recv"
    /\ response = "none"
    /\ job_name = <<>>
    /\ branch_value = <<>>
    /\ params = NoParams
    /\ downstream_jobs = <<>>
    /\ invokes = <<>>
    /\ queue_item = FALSE
    /\ watchAttempt = 0
    /\ build = NoBuild
    /\ threadStarted = 0
    /\ caught = "none"
    /\ calls = {}
    /\ spc = "idle"
    /\ attempt = 0
    /\ dsIdx = 0
    /\ dsBuild = NoBuild
    /\ slack = <<>>
    /\ rootStatus = "Unknown"
    /\ dsState = <<>>
    /\ rootCI = "none"
    /\ dsCI = "none"
    /\ lastCheck = NoCheck
    /\ accepted = FALSE
    /\ postFailed = FALSE
    /\ seen = NotSeen
    /\ pollRaised = FALSE

\* an exception that reaches the except clauses at the end of jenkins_handler
HandlerFails(e) ==
    /\ response' = error_response(e)
    /\ caught' = e
    /\ hpc' = "done"

\* from the entry of jenkins_handler to the end of argument parsing
H_Receive ==
    /\ hpc = "recv"
    /\ \E available \in BOOLEAN :
         LET r == parse_command(available, text) IN
         /\ response' = r.response
         /\ job_name' = r.job_name
         /\ branch_value' = r.branch_value
         /\ params' = r.params
         /\ hpc' = IF r.response = "none" THEN "lookup" ELSE "done"
    /\ UNCHANGED <<text, downstream_jobs, invokes, queue_item, watchAttempt,
                   build, threadStarted, caught, calls>>
    /\ UNCHANGED svars
    /\ UNCHANGED pollRaised

\* "if job_name not in jenkins"
H_Lookup ==
    /\ hpc = "lookup"
    /\ calls' = calls \cup {"lookup"}
    /\ \E ans \in {"yes", "no"} \cup ErrKinds :
         IF ans = "yes" THEN hpc' = "getjob" /\ UNCHANGED <<response, caught>>
         ELSE IF ans = "no"
         THEN hpc' = "done" /\ response' = "job_not_found" /\ UNCHANGED caught
         ELSE HandlerFails(ans)
    /\ UNCHANGED <<text, job_name, branch_value, params, downstream_jobs,
                   invokes, queue_item, watchAttempt, build, threadStarted>>
    /\ UNCHANGED svars
    /\ UNCHANGED pollRaised

\* "job = jenkins[job_name]"
H_GetJob ==
    /\ hpc = "getjob"
    /\ calls' = calls \cup {"lookup"}
    /\ \E ans \in {"ok"} \cup ErrKinds :
         IF ans = "ok" THEN hpc' = "discover" /\ UNCHANGED <<response, caught>>
         ELSE HandlerFails(ans)
    /\ UNCHANGED <<text, job_name, branch_value, params, downstream_jobs,
                   invokes, queue_item, watchAttempt, build, threadStarted>>
    /\ UNCHANGED svars
    /\ UNCHANGED pollRaised

\* job.get_downstream_jobs(), whose exceptions leave the list empty
H_Discover ==
    /\ hpc = "discover"
    /\ calls' = calls \cup {"discover"}
    /\ \E ans \in DownstreamLists \cup {<<"raise">>} :
         downstream_jobs' = IF ans = <<"raise">> THEN <<>> ELSE ans
    /\ dsState' = [i \in DOMAIN downstream_jobs' |-> "Unconfirmed"]
    /\ hpc' = "invoke"
    /\ UNCHANGED <<text, response, job_name, branch_value, params,
                   invokes, queue_item, watchAttempt, build, threadStarted, caught>>
    /\ UNCHANGED <<spc, attempt, dsIdx, dsBuild, slack, rootStatus,
                   rootCI, dsCI, lastCheck, accepted, postFailed, seen, pollRaised>>

\* a plausible slip: every failed submission is tried again without parameters
on_invoke_error_always_retries(e) == "retry"

\* what the handler does with an exception of job.invoke(build_params=params):
\* "retry" without parameters or "raise" it
on_invoke_error(e) == IF e = "no_params" THEN "retry" ELSE "raise"

\* "queue_item = job.invoke(build_params=params)"
H_Invoke ==
    /\ hpc = "invoke"
    /\ calls' = calls \cup {"invoke"}
    /\ \E ans \in {"queued", "no_params"} \cup ErrKinds :
         /\ invokes' = Append(invokes, [kind |-> "params", ans |-> ans])
         /\ IF ans = "queued"
            THEN /\ queue_item' = TRUE /\ hpc' = "watch"
                 /\ rootStatus' = "Queued" /\ UNCHANGED <<response, caught>>
            ELSE IF on_invoke_error(ans) = "retry"
            THEN /\ hpc' = "invoke_bare"
                 /\ UNCHANGED <<queue_item, rootStatus, response, caught>>
            ELSE /\ HandlerFails(IF ans = "no_params" THEN "error" ELSE ans)
                 /\ UNCHANGED <<queue_item, rootStatus>>
    /\ UNCHANGED <<text, job_name, branch_value, params, downstream_jobs,
                   watchAttempt, build, threadStarted>>
    /\ UNCHANGED <<spc, attempt, dsIdx, dsBuild, slack, dsState,
                   rootCI, dsCI, lastCheck, accepted, postFailed, seen, pollRaised>>

\* "queue_item = job.invoke()" inside the except clause
H_InvokeBare ==
    /\ hpc = "invoke_bare"
    /\ \E ans \in {"queued"} \cup ErrKinds :
         /\ invokes' = Append(invokes, [kind |-> "bare", ans |-> ans])
         /\ IF ans = "queued"
            THEN /\ queue_item' = TRUE /\ hpc' = "watch"
                 /\ rootStatus' = "Queued" /\ UNCHANGED <<response, caught>>
            ELSE /\ HandlerFails(ans)
                 /\ UNCHANGED <<queue_item, rootStatus>>
    /\ UNCHANGED <<text, job_name, branch_value, params, downstream_jobs,
                   watchAttempt, build, threadStarted, calls>>
    /\ UNCHANGED <<spc, attempt, dsIdx, dsBuild, slack, dsState,
                   rootCI, dsCI, lastCheck, accepted, postFailed, seen, pollRaised>>

\* one attempt of wait_for_build_to_start: queue_item.get_build()
H_Watch ==
    /\ hpc = "watch"
    /\ watchAttempt < InitialStartAttempts
    /\ calls' = calls \cup {"queue"}
    /\ \E ans \in RootBuilds \cup {NoBuild} :
       \E raised \in BOOLEAN :
         /\ pollRaised' = raised
         /\ IF ~raised /\ ans.present
            THEN /\ build' = ans
                 /\ rootCI' = "running"
                 /\ rootStatus' = "Running"
                 /\ hpc' = "respond"
                 /\ UNCHANGED watchAttempt
            ELSE /\ watchAttempt' = watchAttempt + 1
                 /\ hpc' = IF watchAttempt' = InitialStartAttempts
                           THEN "respond" ELSE "watch"
                 /\ UNCHANGED <<build, rootCI, rootStatus>>
    /\ UNCHANGED <<text, response, job_name, branch_value, params,
                   downstream_jobs, invokes, queue_item, threadStarted, caught>>
    /\ UNCHANGED <<spc, attempt, dsIdx, dsBuild, slack, dsState,
                   dsCI, lastCheck, accepted, postFailed, seen>>

\* a plausible slip: the thread is started whether or not a build was seen
starts_thread_always(b) == TRUE

\* whether the handler starts the monitoring thread: "if build:"
starts_thread(b) == b.present

\* the acknowledgement and "thread.start()"
H_Respond ==
    /\ hpc = "respond"
    /\ response' = "started"
    /\ hpc' = "done"
    /\ IF starts_thread(build)
       THEN threadStarted' = threadStarted + 1 /\ spc' = "root_input"
       ELSE UNCHANGED <<threadStarted, spc>>
    /\ UNCHANGED <<text, job_name, branch_value, params, downstream_jobs,
                   invokes, queue_item, watchAttempt, build, caught, calls>>
    /\ UNCHANGED <<attempt, dsIdx, dsBuild, slack, rootStatus, dsState,
                   rootCI, dsCI, lastCheck, accepted, postFailed, seen, pollRaised>>

HandlerNext ==
    \/ H_Receive
    \/ H_Lookup
    \/ H_GetJob
    \/ H_Discover
    \/ H_Invoke
    \/ H_InvokeBare
    \/ H_Watch
    \/ H_Respond

SpecCmd == InitCmd /\ [][HandlerNext]_vars

(***************************************************************************)
(* The CI system's side of a build                                         *)
(***************************************************************************)
\* running; paused at a pipeline input step; finished with success; finished
\* otherwise.  What the build may have become by the next call:
ci_next(c) ==
    IF c = "running" THEN {"running", "paused", "success", "failure"}
    ELSE IF c = "paused" THEN {"paused", "running", "failure"}
    ELSE {c}

\* the answers the calls of one check_and_handle_input can get, in the order
\* the code makes them; "-" stands for a call that is not reached because an
\* earlier one raised or ended the check
InputAnswers ==
    { r \in [running : {"yes", "no", "raise"},          \* build.is_running()
             poll    : {"ok", "raise", "-"},            \* build.poll()
             actions : {"input", "none", "raise", "-"}, \* get_actions(): InputAction?
             form    : {"BRANCH", "other", "raise", "-"},  \* text of <build_url>input/
             crumb   : {"ok", "raise", "-"},            \* requester.CRUMB
             submit  : {"200", "other", "raise", "-"}] :   \* post_and_confirm_status
        /\ (r.poll = "-") = (r.running # "yes")
        /\ (r.actions = "-") = (r.poll # "ok")
        /\ (r.form = "-") = (r.actions # "input")
        /\ (r.crumb = "-") = (r.form \notin {"BRANCH", "other"})
        /\ (r.submit = "-") = (r.crumb # "ok") }

\* the answers a build in CI state c can give: it reports its own running
\* flag, shows the marker while paused (and possibly a stale one while it
\* runs), and confirms a submission only while paused
answers_of(c) ==
    { r \in InputAnswers :
        /\ r.running \in {"raise", IF c \in {"running", "paused"} THEN "yes" ELSE "no"}
        /\ (c = "paused" => r.actions # "none")
        /\ (r.submit = "200" => c = "paused") }

\* the answers one tick of wait_for_build_success can get
WaitAnswers ==
    { r \in [poll    : {"ok", "raise"},                               \* build.poll()
             running : {"yes", "no", "raise", "-"},                   \* build.is_running()
             status  : {"SUCCESS", "FAILURE", "ABORTED", "raise", "-"}] : \* build.get_status()
        /\ (r.running = "-") = (r.poll # "ok")
        /\ (r.status = "-") = (r.running # "no") }

wait_answers_of(c) ==
    { r \in WaitAnswers :
        /\ r.running \in {"raise", "-", IF c \in {"running", "paused"} THEN "yes" ELSE "no"}
        /\ (c = "success" => r.status \in {"SUCCESS", "raise", "-"})
        /\ (c = "failure" => r.status \in {"FAILURE", "ABORTED", "raise", "-"}) }

(***************************************************************************)
(* check_and_handle_input                                                  *)
(***************************************************************************)
\* a plausible slip: the except clauses raise the exception again
input_check_reraises == "Raise"

\* what the two except clauses of check_and_handle_input return
input_check_except == "False"

\* the condition under which the resolver goes on to fetch and submit
waiting_for_input(has_input, b) == has_input /\ b.url_input

\* a plausible slip: BRANCH is put in the submission whatever the form holds
submit_data_always_branch(form, bv) ==
    [proceed |-> TRUE, crumb |-> TRUE, has_branch |-> TRUE, BRANCH |-> bv]

\* the submit_data dict: proceed, the anti-forgery token, and BRANCH with the
\* branch value when the form text holds "BRANCH"
submit_data(form, bv) ==
    [proceed |-> TRUE, crumb |-> TRUE,
     has_branch |-> form = "BRANCH",
     BRANCH |-> IF form = "BRANCH" THEN bv ELSE <<>>]

NoSubmit == [proceed |-> FALSE, crumb |-> FALSE, has_branch |-> FALSE, BRANCH |-> <<>>]

\* a plausible slip: any response to the submission counts as success
status_confirms_any(status) == status \in {"200", "other"}

\* "if response.status_code == 200"
status_confirms(status) == status = "200"

\* what a check did: its return value, whether it saw the InputAction marker,
\* fetched the form, posted a submission, what the form and the submission
\* held, and the status the submission got
CheckResult(ret, marker, fetched, submitted, form, data, status) ==
    [ret |-> ret, marker |-> marker, fetched |-> fetched,
     submitted |-> submitted, form |-> form, data |-> data, status |-> status,
     after_accept |-> FALSE]

check_and_handle_input(b, bv, r) ==
    IF r.running = "raise"
    THEN CheckResult(input_check_except, FALSE, FALSE, FALSE, "-", NoSubmit, "-")
    ELSE IF r.running = "no"
    THEN CheckResult("False", FALSE, FALSE, FALSE, "-", NoSubmit, "-")
    ELSE IF r.poll = "raise" \/ r.actions = "raise"
    THEN CheckResult(input_check_except, FALSE, FALSE, FALSE, "-", NoSubmit, "-")
    ELSE IF ~waiting_for_input(r.actions = "input", b)
    THEN CheckResult("False", r.actions = "input", FALSE, FALSE, "-", NoSubmit, "-")
    ELSE IF r.form = "raise" \/ r.crumb = "raise"
    THEN CheckResult(input_check_except, TRUE, TRUE, FALSE, r.form, NoSubmit, "-")
    ELSE IF r.submit = "raise"
    THEN CheckResult(input_check_except, TRUE, TRUE, TRUE, r.form,
                     submit_data(r.form, bv), r.submit)
    ELSE IF status_confirms(r.submit)
    THEN CheckResult("True", TRUE, TRUE, TRUE, r.form, submit_data(r.form, bv), r.submit)
    ELSE CheckResult("False", TRUE, TRUE, TRUE, r.form, submit_data(r.form, bv), r.submit)

\* the CI state after a check: a submission that reached a paused build may
\* have been accepted even when its response was lost or unexpected
ci_after(c, res, r) ==
    IF res.submitted /\ c = "paused"
    THEN IF r.submit = "200" THEN {"running"} ELSE {"paused", "running"}
    ELSE {c}

\* one call of check_and_handle_input on build b whose CI state was c0: what
\* the check did, the CI state after it, whether the CI system accepted input
InputChecks(b, c0) ==
    UNION { UNION { { [res |-> [check_and_handle_input(b, branch_value, r) EXCEPT
                                   !.after_accept = check_and_handle_input(b, branch_value, r).submitted
                                                        /\ accepted],
                       ci |-> c2,
                       accepted |-> check_and_handle_input(b, branch_value, r).submitted
                                       /\ c = "paused" /\ c2 = "running"]
                      : c2 \in ci_after(c, check_and_handle_input(b, branch_value, r), r) }
                    : r \in answers_of(c) }
            : c \in ci_next(c0) }

(***************************************************************************)
(* async_handle_builds                                                     *)
(***************************************************************************)
\* wait_for_build_success(build): max_attempts=30
RootPollAttempts == 30
\* monitor_downstream_build(...): max_attempts=12
CorrelationAttempts == 12
\* max_input_checks = 15
MaxInputChecks == 15

TerminalStatuses == {"Succeeded", "Failed", "TimedOut"}

Message(kind, target) == [kind |-> kind, target |-> target]

\* the except clause around all of async_handle_builds: log, and the thread ends
SessionAborts == spc' = "done"

\* a plausible slip: the loop variable does not advance
descriptor_after_stays(i) == i

\* the descriptor the loop "for downstream_name in downstream_jobs" takes next
descriptor_after(i) == i + 1

\* the loop "for downstream_name in downstream_jobs" moves on
NextDescriptor ==
    /\ dsBuild' = NoBuild
    /\ dsCI' = "none"
    /\ seen' = NotSeen
    /\ lastCheck' = NoCheck
    /\ accepted' = FALSE
    /\ attempt' = 0
    /\ pollRaised' = FALSE
    /\ IF dsIdx < Len(downstream_jobs)
       THEN spc' = "ds_monitor" /\ dsIdx' = descriptor_after(dsIdx)
       ELSE spc' = "done" /\ UNCHANGED dsIdx

\* "if check_and_handle_input(build, branch_value):" on the root build
S_RootInput ==
    /\ spc = "root_input"
    /\ \E o \in InputChecks(build, rootCI) :
         /\ lastCheck' = o.res
         /\ rootCI' = o.ci
         /\ accepted' = (accepted \/ o.accepted)
         /\ rootStatus' = IF o.res.fetched THEN "WaitingForInput" ELSE rootStatus
         /\ IF o.res.ret = "True" THEN spc' = "post_root_input"
            ELSE IF o.res.ret = "False" THEN spc' = "root_wait"
            ELSE SessionAborts
    /\ calls' = calls \cup {"input"}
    /\ UNCHANGED hvars
    /\ UNCHANGED <<attempt, dsIdx, dsBuild, slack, dsState, dsCI, postFailed, seen,
                   pollRaised>>

\* chat_postMessage "Submitted branch parameter to <job_name>"
S_PostRootInput ==
    /\ spc = "post_root_input"
    /\ \E delivered \in BOOLEAN :
         IF delivered
         THEN /\ slack' = Append(slack, Message("input_submitted", "root"))
              /\ spc' = "root_wait"
              /\ UNCHANGED postFailed
         ELSE /\ postFailed' = TRUE
              /\ SessionAborts
              /\ UNCHANGED slack
    /\ UNCHANGED hvars
    /\ UNCHANGED <<calls, attempt, dsIdx, dsBuild, rootStatus, dsState, rootCI,
                   dsCI, lastCheck, accepted, seen, pollRaised>>

\* a plausible slip: a finished build that did not succeed is polled again
wait_tick_retries_failure(r) ==
    IF r.poll = "raise" \/ r.running = "raise" THEN "retry"
    ELSE IF r.running = "yes" THEN "retry"
    ELSE IF r.status = "SUCCESS" THEN "True"
    ELSE "retry"

\* one tick of wait_for_build_success: "True"/"False" when it returns,
\* "retry" when it sleeps and goes round again
wait_tick(r) ==
    IF r.poll = "raise" \/ r.running = "raise" THEN "retry"
    ELSE IF r.running = "yes" THEN "retry"
    ELSE IF r.status = "raise" THEN "retry"
    ELSE IF r.status = "SUCCESS" THEN "True"
    ELSE "False"

\* the status a tick determines for the build (old when it determines none)
observed_status(r, old) ==
    IF r.poll = "raise" \/ r.running = "raise" THEN old
    ELSE IF r.running = "yes" THEN "Running"
    ELSE IF r.status = "raise" THEN old
    ELSE IF r.status = "SUCCESS" THEN "Succeeded"
    ELSE "Failed"

\* a call of the tick raised: the except clause of wait_for_build_success ran
wait_raised(r) == r.poll = "raise" \/ r.running = "raise" \/ r.status = "raise"

\* a plausible slip: the function returns True when its attempts run out
wait_exhausted_returns_true == "True"

\* "return False" after the loop of wait_for_build_success
wait_exhausted_returns == "False"

\* what wait_for_build_success does on a tick that is its (done + 1)-th:
\* return "True" / "False", or "retry"
wait_step(r, done) ==
    IF wait_tick(r) # "retry" THEN wait_tick(r)
    ELSE IF done + 1 = RootPollAttempts THEN wait_exhausted_returns
    ELSE "retry"

\* one tick of "if not wait_for_build_success(build):" and, when it returns
\* True, "main_build_time = build.get_timestamp()" and the entry of the loop
\* over downstream_jobs
S_RootPoll ==
    /\ spc = "root_wait"
    /\ attempt < RootPollAttempts
    /\ calls' = calls \cup {"root"}
    /\ \E c \in ci_next(rootCI) : \E r \in wait_answers_of(c) :
         /\ rootCI' = c
         /\ pollRaised' = wait_raised(r)
         /\ rootStatus' = IF wait_tick(r) = "retry" /\ attempt + 1 = RootPollAttempts
                          THEN "TimedOut"
                          ELSE observed_status(r, rootStatus)
         /\ IF wait_step(r, attempt) = "retry"
            THEN /\ attempt' = attempt + 1
                 /\ UNCHANGED <<spc, dsIdx, lastCheck, accepted>>
            ELSE IF wait_step(r, attempt) = "False"
            THEN /\ spc' = "post_root_fail"
                 /\ attempt' = IF wait_tick(r) = "retry" THEN attempt + 1 ELSE attempt
                 /\ UNCHANGED <<dsIdx, lastCheck, accepted>>
            ELSE /\ lastCheck' = NoCheck
                 /\ accepted' = FALSE
                 /\ attempt' = 0
                 /\ IF downstream_jobs = <<>>
                    THEN spc' = "done" /\ UNCHANGED dsIdx
                    ELSE spc' = "ds_monitor" /\ dsIdx' = 1
    /\ UNCHANGED hvars
    /\ UNCHANGED <<dsBuild, slack, dsState, dsCI, postFailed, seen>>

\* a plausible slip: the "return" after the failure message is missing
root_failure_falls_through == FALSE

\* the "return" that follows the failure message
root_failure_returns == TRUE

\* chat_postMessage "Main build failed or timed out, ..." and return
S_PostRootFail ==
    /\ spc = "post_root_fail"
    /\ \E delivered \in BOOLEAN :
         IF delivered
         THEN /\ slack' = Append(slack, Message("root_failed", "root"))
              /\ UNCHANGED postFailed
              /\ IF root_failure_returns \/ downstream_jobs = <<>>
                 THEN spc' = "done" /\ UNCHANGED <<dsIdx, attempt>>
                 ELSE spc' = "ds_monitor" /\ dsIdx' = 1 /\ attempt' = 0
         ELSE /\ postFailed' = TRUE
              /\ SessionAborts
              /\ UNCHANGED <<slack, dsIdx, attempt>>
    /\ UNCHANGED hvars
    /\ pollRaised' = FALSE
    /\ UNCHANGED <<calls, dsBuild, rootStatus, dsState, rootCI,
                   dsCI, lastCheck, accepted, seen>>

OtherJob == <<"o","t","h","e","r">>

\* a cause on record: the upstream project and build that started the build
CauseOf(project, buildno) == [known |-> TRUE, project |-> project, build |-> buildno]

\* what get_last_build can return for a downstream job, with the cause the
\* CI system recorded for that build.  A build whose recorded cause is this
\* session's root build was started after the root build.
Candidates ==
    { c \in [build : [present : {TRUE}, buildno : {7}, url_input : BOOLEAN,
                      ts : Timestamps],
             cause : {NoCause, CauseOf(job_name, build.buildno),
                      CauseOf(job_name, build.buildno - 1),
                      CauseOf(OtherJob, build.buildno)}] :
        (c.cause.known /\ c.cause.project = job_name /\ c.cause.build = build.buildno)
            => c.build.ts > build.ts }

\* a plausible slip: the comparison is the wrong way round
monitor_accepts_earlier(cand, main_build_time) ==
    cand.present /\ cand.ts < main_build_time

\* "if build and build.get_timestamp() > main_build_time"
monitor_accepts(cand, main_build_time) ==
    cand.present /\ cand.ts > main_build_time

\* a plausible slip: a loop whose counter is never advanced
next_attempt_stays(n) == n

\* "for attempt in range(max_attempts)": every pass is one attempt
next_attempt(n) == n + 1

\* a plausible slip: the exception of a poll is raised again
poll_except_reraises == "raise"

\* the except clause of monitor_downstream_build: log, sleep, next attempt
poll_except == "retry"

\* one attempt of monitor_downstream_build for the descriptor in progress
S_DsPoll ==
    /\ spc = "ds_monitor"
    /\ attempt < CorrelationAttempts
    /\ calls' = calls \cup {"ds"}
    /\ \E raised \in BOOLEAN : \E cand \in Candidates \cup {NotSeen} :
         /\ seen' = IF raised THEN NotSeen ELSE cand
         /\ pollRaised' = raised
         /\ IF ~raised /\ monitor_accepts(cand.build, build.ts)
            THEN /\ dsBuild' = cand.build
                 /\ dsCI' = "running"
                 /\ dsState' = [dsState EXCEPT ![dsIdx] = "Confirmed"]
                 /\ spc' = "post_ds_started"
                 /\ UNCHANGED attempt
            ELSE IF raised /\ poll_except = "raise"
            THEN /\ SessionAborts
                 /\ UNCHANGED <<attempt, dsState, dsBuild, dsCI>>
            ELSE /\ attempt' = next_attempt(attempt)
                 /\ IF attempt' = CorrelationAttempts
                    THEN /\ dsState' = [dsState EXCEPT ![dsIdx] = "TimedOut"]
                         /\ spc' = "post_ds_warn"
                    ELSE UNCHANGED <<dsState, spc>>
                 /\ UNCHANGED <<dsBuild, dsCI>>
    /\ UNCHANGED hvars
    /\ UNCHANGED <<dsIdx, slack, rootStatus, rootCI, lastCheck, accepted, postFailed>>

\* chat_postMessage "Downstream job <name> started: ..."
S_PostDsStarted ==
    /\ spc = "post_ds_started"
    /\ \E delivered \in BOOLEAN :
         IF delivered
         THEN /\ slack' = Append(slack, Message("ds_started", downstream_jobs[dsIdx]))
              /\ spc' = "ds_input"
              /\ attempt' = 0
              /\ UNCHANGED postFailed
         ELSE /\ postFailed' = TRUE
              /\ SessionAborts
              /\ UNCHANGED <<slack, attempt>>
    /\ UNCHANGED hvars
    /\ UNCHANGED <<calls, dsIdx, dsBuild, rootStatus, dsState, rootCI,
                   dsCI, lastCheck, accepted, seen, pollRaised>>

\* one round of "for _ in range(max_input_checks)" on the downstream build
S_DsInput ==
    /\ spc = "ds_input"
    /\ attempt < MaxInputChecks
    /\ calls' = calls \cup {"input"}
    /\ \E o \in InputChecks(dsBuild, dsCI) :
         IF o.res.ret = "False" /\ attempt + 1 = MaxInputChecks
         THEN NextDescriptor
         ELSE /\ lastCheck' = o.res
              /\ dsCI' = o.ci
              /\ accepted' = (accepted \/ o.accepted)
              /\ UNCHANGED <<dsIdx, dsBuild, seen, pollRaised>>
              /\ IF o.res.ret = "True"
                 THEN spc' = "post_ds_input" /\ UNCHANGED attempt
                 ELSE IF o.res.ret = "False"
                 THEN attempt' = attempt + 1 /\ UNCHANGED spc
                 ELSE SessionAborts /\ UNCHANGED attempt
    /\ UNCHANGED hvars
    /\ UNCHANGED <<slack, rootStatus, dsState, rootCI, postFailed>>

\* a plausible slip: the "break" after the message is missing
input_loop_goes_on == FALSE

\* the "break" that follows the "Submitted branch parameter" message
input_loop_breaks == TRUE

\* chat_postMessage "Submitted branch parameter to <name>" and break
S_PostDsInput ==
    /\ spc = "post_ds_input"
    /\ \E delivered \in BOOLEAN :
         IF delivered
         THEN /\ slack' = Append(slack, Message("input_submitted", downstream_jobs[dsIdx]))
              /\ IF input_loop_breaks \/ attempt + 1 = MaxInputChecks
                 THEN NextDescriptor
                 ELSE /\ spc' = "ds_input"
                      /\ attempt' = attempt + 1
                      /\ UNCHANGED <<dsIdx, dsBuild, dsCI, seen, lastCheck, accepted,
                                     pollRaised>>
              /\ UNCHANGED postFailed
         ELSE /\ postFailed' = TRUE
              /\ SessionAborts
              /\ pollRaised' = FALSE
              /\ UNCHANGED <<slack, dsIdx, attempt, dsBuild, dsCI, seen,
                             lastCheck, accepted>>
    /\ UNCHANGED hvars
    /\ UNCHANGED <<calls, rootStatus, dsState, rootCI>>

\* chat_postMessage "Could not detect downstream job <name>, ..."
S_PostDsWarn ==
    /\ spc = "post_ds_warn"
    /\ \E delivered \in BOOLEAN :
         IF delivered
         THEN /\ slack' = Append(slack, Message("ds_warning", downstream_jobs[dsIdx]))
              /\ NextDescriptor
              /\ UNCHANGED postFailed
         ELSE /\ postFailed' = TRUE
              /\ SessionAborts
              /\ pollRaised' = FALSE
              /\ UNCHANGED <<slack, dsIdx, attempt, dsBuild, dsCI, seen,
                             lastCheck, accepted>>
    /\ UNCHANGED hvars
    /\ UNCHANGED <<calls, rootStatus, dsState, rootCI>>

SessionNext ==
    \/ S_RootInput
    \/ S_PostRootInput
    \/ S_RootPoll
    \/ S_PostRootFail
    \/ S_DsPoll
    \/ S_PostDsStarted
    \/ S_DsInput
    \/ S_PostDsInput
    \/ S_PostDsWarn

\* jenkins_handler has just started the monitoring thread: it parsed a valid
\* request, found the job, read its downstream jobs, queued a build, saw the
\* build start, and called thread.start()
Init ==
    /\ text \in SessionTexts
    /\ hpc = "done"
    /\ response = "started"
    /\ job_name = parse_command(TRUE, text).job_name
    /\ branch_value = parse_command(TRUE, text).branch_value
    /\ params = parse_command(TRUE, text).params
    /\ downstream_jobs \in DownstreamLists
    /\ invokes = <<[kind |-> "params", ans |-> "queued"]>>
    /\ queue_item = TRUE
    /\ watchAttempt = 0
    /\ build \in RootBuilds
    /\ threadStarted = 1
    /\ caught = "none"
    /\ calls = {"lookup", "discover", "invoke", "queue"}
    /\ spc = "root_input"
    /\ attempt = 0
    /\ dsIdx = 0
    /\ dsBuild = NoBuild
    /\ slack = <<>>
    /\ rootStatus = "Running"
    /\ dsState = [i \in DOMAIN downstream_jobs |-> "Unconfirmed"]
    /\ rootCI = "running"
    /\ dsCI = "none"
    /\ lastCheck = NoCheck
    /\ accepted = FALSE
    /\ postFailed = FALSE
    /\ seen = NotSeen
    /\ pollRaised = FALSE

\* every state in which jenkins_handler has started the thread is, in what
\* the thread reads, one of the states Init describes
ThreadStartsFromInit ==
    threadStarted > 0 =>
        /\ threadStarted = 1 /\ caught = "none"
        /\ hpc = "done" /\ response = "started"
        /\ job_name = parse_command(TRUE, text).job_name
        /\ branch_value = parse_command(TRUE, text).branch_value
        /\ build \in RootBuilds
        /\ downstream_jobs \in DownstreamLists
        /\ dsState = [i \in DOMAIN downstream_jobs |-> "Unconfirmed"]
        /\ calls = {"lookup", "discover", "invoke", "queue"}
        /\ spc = "root_input" /\ rootStatus = "Running" /\ rootCI = "running"
        /\ attempt = 0 /\ dsIdx = 0 /\ dsBuild = NoBuild /\ slack = <<>>
        /\ dsCI = "none" /\ lastCheck = NoCheck /\ ~accepted /\ ~postFailed
        /\ seen = NotSeen /\ ~pollRaised

\* the monitoring thread, from the state in which jenkins_handler started it
Spec == Init /\ [][SessionNext]_vars

(***************************************************************************)
(* Claims about request validation (checked under SpecCmd)                 *)
(***************************************************************************)
\* the words of the request after the job name
RequestArgs == Tail(split(strip(text)))

\* the values the request gives for a key
ValuesOf(key) ==
    { split_value(RequestArgs[i]) : i \in
        { k \in DOMAIN RequestArgs :
            index_of(RequestArgs[k], "=") # 0 /\ split_key(RequestArgs[k]) = key } }

HasIllegalBranchChar(v) == \E i \in DOMAIN v : v[i] \notin BranchChars

NoCIWork ==
    /\ calls = {}
    /\ invokes = <<>>
    /\ ~queue_item
    /\ threadStarted = 0
    /\ spc = "idle"

SyncRejections == {"invalid_branch", "invalid_commit", "unavailable",
                   "branch_required", "help"}

\* C1: a request giving a branch value with a character outside
\* [A-Za-z0-9_./-] is answered at once with a rejection, and the handler makes
\* no job lookup, no downstream discovery, no build submission, no queue poll
\* and starts no monitoring thread.
C1_BadBranchRejectedBeforeCI ==
    (hpc # "recv" /\ split(strip(text)) # <<>>
        /\ \E v \in ValuesOf(W_branch) : HasIllegalBranchChar(v))
    => (hpc = "done" /\ response \in SyncRejections /\ NoCIWork)

\* C1 witness: a request whose second branch value is the illegal one has been
\* rejected for its branch.
C1_Witness ==
    /\ hpc = "done"
    /\ response = "invalid_branch"
    /\ Len(RequestArgs) = 2
    /\ index_of(RequestArgs[1], "=") # 0
    /\ split_key(RequestArgs[1]) = W_branch
    /\ validate_branch_name(split_value(RequestArgs[1]))
    /\ HasIllegalBranchChar(split_value(RequestArgs[2]))

\* C6: the command "job=svc-a branch=bad branch!" is rejected synchronously
\* with "Invalid branch name format" and no CI call is made.
C6_ScenarioRejected ==
    (text = ScenarioBadBranch /\ hpc = "done" /\ response # "unavailable")
    => (response = "invalid_branch" /\ calls = {})

\* the pattern ^[a-f0-9]{5,40}$ applied to the value as written
MatchesCommitPattern(v) ==
    /\ Len(v) >= MinCommitLen
    /\ Len(v) <= MaxCommitLen
    /\ \A i \in DOMAIN v : v[i] \in HexChars

NotDispatched ==
    /\ hpc = "done"
    /\ response \in SyncRejections
    /\ NoCIWork

\* C7 as stated: a request with a commit value that does not match
\* ^[a-f0-9]{5,40}$ is rejected, with no build submitted and no monitoring.
C7_Original ==
    (hpc # "recv" /\ split(strip(text)) # <<>>
        /\ \E v \in ValuesOf(W_commit) : ~MatchesCommitPattern(v))
    => NotDispatched

\* C7 as amended: a request with a commit value that, lower-cased, does not
\* match ^[a-f0-9]{5,40}$ is rejected, with no build submitted and no
\* monitoring started, wherever the commit argument stands.
C7_BadCommitRejected ==
    (hpc # "recv" /\ split(strip(text)) # <<>>
        /\ \E v \in ValuesOf(W_commit) : ~MatchesCommitPattern(lower(v)))
    => NotDispatched

\* C7 witness: a too-long commit value that follows a valid branch argument
\* has been rejected.
C7_Witness ==
    /\ hpc = "done"
    /\ response = "invalid_commit"
    /\ Len(RequestArgs) = 2
    /\ index_of(RequestArgs[1], "=") # 0
    /\ split_key(RequestArgs[1]) = W_branch
    /\ index_of(RequestArgs[2], "=") # 0
    /\ split_key(RequestArgs[2]) = W_commit
    /\ Len(split_value(RequestArgs[2])) > MaxCommitLen

(***************************************************************************)
(* Claims about the monitoring thread (checked under Spec)                 *)
(***************************************************************************)
\* the recorded cause names this session's root job and root build number
CauseNamesRoot(cause) ==
    cause.known /\ cause.project = job_name /\ cause.build = build.buildno

Posted(kind, target) == \E i \in DOMAIN slack : slack[i] = Message(kind, target)

\* the session went through all its steps: the root build got a terminal
\* status and, if it succeeded, every descriptor was correlated to an end
SessionRanToEnd ==
    /\ rootStatus \in TerminalStatuses
    /\ rootStatus = "Succeeded" =>
          \A i \in DOMAIN dsState : dsState[i] # "Unconfirmed"

\* a downstream build has been returned by monitor_downstream_build and is
\* being reported and handled
DescriptorConfirmed == spc \in {"post_ds_started", "ds_input", "post_ds_input"}

\* C2: a descriptor is confirmed only if the candidate's recorded cause names
\* this session's root job and build number or, only when the candidate has no
\* cause metadata, its start timestamp is strictly later than the root's.
C2_ConfirmedOnlyByCause ==
    DescriptorConfirmed =>
        \/ CauseNamesRoot(seen.cause)
        \/ (~seen.cause.known /\ seen.build.ts > build.ts)

\* C3: no call is made to a downstream job before the root build has been
\* observed Succeeded, and none at all once it is Failed or TimedOut.
C3_NoDownstreamCallUnlessRootSucceeded ==
    /\ "ds" \in calls => rootStatus = "Succeeded"
    /\ rootStatus \in {"Failed", "TimedOut"} => ("ds" \notin calls /\ dsIdx = 0)

\* C3 witness: a session with downstream jobs declared has ended after its
\* root build failed, its failure message delivered, with no downstream call.
C3_Witness ==
    /\ spc = "done"
    /\ rootStatus = "Failed"
    /\ downstream_jobs # <<>>
    /\ Posted("root_failed", "root")
    /\ "ds" \notin calls

\* C4: a status message whose delivery fails does not abort the session: the
\* session still runs all its remaining steps.
C4_PostFailureSwallowed ==
    (spc = "done" /\ postFailed) => SessionRanToEnd

\* C5: once the monitor has given the root build a terminal status
\* (Succeeded, Failed, TimedOut), no later step changes that status.
C5_TerminalStatusIsFinal ==
    [][(rootStatus \in TerminalStatuses) => (rootStatus' = rootStatus)]_vars

\* C5 witness: the session is checking a downstream build for input, several
\* rounds in, after the root build was found Succeeded.
C5_Witness ==
    /\ rootStatus = "Succeeded"
    /\ spc = "ds_input"
    /\ attempt > 1

\* C8: whatever the CI system answers, check_and_handle_input returns True or
\* False and never raises, so that a session whose messages are all
\* delivered runs to its end.
C8_InputCheckNeverRaises ==
    /\ lastCheck.ret \in {"none", "True", "False"}
    /\ (spc = "done" /\ ~postFailed) => SessionRanToEnd

\* C8 witness: the session submitted input again to a downstream build whose
\* input the CI system had already accepted, the check returned False, and
\* the session is still in its input-check loop.
C8_Witness ==
    /\ spc = "ds_input"
    /\ lastCheck.after_accept
    /\ lastCheck.ret = "False"

\* C9: for a job with no downstream jobs whose build #42 succeeds, the
\* conversation gets the acknowledgement and then a "build succeeded" message,
\* and no downstream message.
C9_SuccessReported ==
    (spc = "done" /\ rootStatus = "Succeeded" /\ downstream_jobs = <<>>
        /\ build.buildno = 42 /\ ~postFailed)
    => /\ response = "started"
       /\ \E i \in DOMAIN slack : slack[i].kind = "root_succeeded"
       /\ \A i \in DOMAIN slack : slack[i].kind \notin {"ds_started", "ds_warning"}

\* C10: when the latest build of a declared downstream job has a cause that
\* names the root job and build number, the correlation loop confirms it
\* within its budget, the next step of the session is the "Downstream job
\* <name> started" message, and input checks on that build are made only
\* after that message was delivered.
C10_CauseMatchIsReportedThenHandled ==
    /\ [](/\ spc \in {"ds_monitor", "post_ds_warn"} => ~CauseNamesRoot(seen.cause)
          /\ spc = "post_ds_started" =>
                /\ attempt < CorrelationAttempts
                /\ dsState[dsIdx] = "Confirmed"
                /\ dsBuild = seen.build
          /\ (spc \in {"ds_input", "post_ds_input"} \/ (dsIdx > 0 /\ lastCheck # NoCheck))
                => Posted("ds_started", downstream_jobs[dsIdx]))
    /\ [][(spc = "post_ds_started") =>
            (\/ slack' = Append(slack, Message("ds_started", downstream_jobs[dsIdx]))
             \/ postFailed')]_vars

\* C10 witness: a candidate whose cause names the root build was confirmed,
\* the "started" message was delivered, and the resolver then submitted input
\* to that build.
C10_Witness ==
    /\ spc = "post_ds_input"
    /\ CauseNamesRoot(seen.cause)
    /\ Posted("ds_started", downstream_jobs[dsIdx])
    /\ lastCheck.submitted

(***************************************************************************)
(* Claims about failure reporting and the shape of the monitoring          *)
(***************************************************************************)
\* the Build Start Watcher of the request used up its attempts without a build
WatcherExhausted ==
    /\ hpc = "done"
    /\ queue_item
    /\ ~build.present
    /\ watchAttempt = InitialStartAttempts

\* the session is over, and for one of the failure reasons
SessionEndedForFailure ==
    \/ WatcherExhausted
    \/ /\ spc = "done"
       /\ \/ rootStatus \in {"Failed", "TimedOut"}
          \/ \E i \in DOMAIN dsState : dsState[i] = "TimedOut"
          \/ postFailed

\* kinds of message that tell the conversation of a failure
FailureKinds == {"root_failed", "ds_warning", "start_warning", "monitor_error"}

FailureReported ==
    \/ \E i \in DOMAIN slack : slack[i].kind \in FailureKinds
    \/ response \in FailureKinds

\* C11: every session that ends for a failure reason (root Failed, root poll
\* budget exhausted, Build Start Watcher budget exhausted, a descriptor left
\* unconfirmed, an unexpected error in the monitoring) has sent at least one
\* failure or warning message to the conversation.
C11_FailuresAlwaysReported ==
    SessionEndedForFailure => FailureReported

\* C12: on every poll tick of the root build's monitoring at which the build is
\* paused awaiting input, the input resolver looks at the build, so that the
\* latest input check is one that saw the marker.
C12_PausedRootIsCheckedOnEveryTick ==
    [][(spc = "root_wait" /\ rootCI' = "paused") => (lastCheck'.marker)]_vars

\* C13: a confirmed downstream build is polled like the root until it has a
\* terminal status (Succeeded, Failed, TimedOut), so that a session that ran
\* through all its descriptors leaves each of them with a terminal status.
C13_DownstreamPolledToTerminal ==
    (spc = "done" /\ rootStatus = "Succeeded" /\ ~postFailed)
    => \A i \in DOMAIN dsState : dsState[i] \in TerminalStatuses

\* C14: the Build Start Watcher polls the queue item at most
\* InitialStartAttempts times; when no build shows up within them the user is
\* sent a terminal warning and nothing monitors that trigger.
C14_WatcherExhaustionWarns ==
    /\ watchAttempt <= InitialStartAttempts
    /\ WatcherExhausted =>
          /\ response = "start_warning"
          /\ threadStarted = 0
          /\ spc = "idle"

\* C15: the request path makes no queue-item poll and no build-status poll
\* before it has returned its acknowledgement.
C15_NoPollOnRequestPath ==
    hpc # "done" => (calls \cap {"queue", "root", "input", "ds"} = {})

(***************************************************************************)
(* Claims about dispatch (checked under SpecCmd)                           *)
(***************************************************************************)
Queued == {i \in DOMAIN invokes : invokes[i].ans = "queued"}

C17_ResubmitOnlyWithoutParameters ==
    /\ Len(invokes) <= 2
    /\ invokes # <<>> => invokes[1].kind = "params"
    /\ Len(invokes) = 2 => (invokes[1].ans = "no_params" /\ invokes[2].kind = "bare")
    /\ (Len(invokes) = 1 /\ invokes[1].ans = "no_params") => hpc = "invoke_bare"
    /\ hpc = "invoke_bare" => (Len(invokes) = 1 /\ invokes[1].ans = "no_params")
    /\ Cardinality(Queued) <= 1
    /\ queue_item = (Queued # {})

\* C17 witness: the job refused parameters, the second submission was queued,
\* and the request was acknowledged with its thread started.
C17_Witness ==
    /\ hpc = "done"
    /\ Len(invokes) = 2
    /\ invokes[2].ans = "queued"
    /\ threadStarted = 1

(***************************************************************************)
(* Claims about the input resolver (checked under Spec)                    *)
(***************************************************************************)
\* C18: whenever a running build's actions hold the InputAction marker, the
\* resolver fetches the pending input form and goes on to submit; nothing but
\* the marker (in particular not the shape of the build's URL) decides it.
C18_MarkerAloneTriggersSubmission ==
    lastCheck.marker => lastCheck.fetched

\* C19: a submission carries the proceed flag and the anti-forgery token and,
\* when the fetched form holds BRANCH, the session's branch value;
\* check_and_handle_input returns True only for a submission answered with
\* status 200, and False for every other status and every exception.
C19_SubmissionCarriesBranchAndToken ==
    /\ lastCheck.submitted => (lastCheck.data.proceed /\ lastCheck.data.crumb)
    /\ (lastCheck.submitted /\ lastCheck.form = "BRANCH") =>
          /\ lastCheck.data.has_branch
          /\ lastCheck.data.BRANCH = branch_value
          /\ lastCheck.data.BRANCH = split_value(RequestArgs[1])
    /\ lastCheck.ret = "True" => (lastCheck.submitted /\ lastCheck.status = "200")
    /\ (lastCheck.ret # "none" /\ lastCheck.status # "200") => lastCheck.ret = "False"

\* C19 witness: a downstream build's form asked for BRANCH, the submission
\* carried the branch of the request and was answered with 200.
C19_Witness ==
    /\ spc = "post_ds_input"
    /\ lastCheck.ret = "True"
    /\ lastCheck.form = "BRANCH"
    /\ lastCheck.data.BRANCH = branch_value
    /\ branch_value # <<>>

(***************************************************************************)
(* Claims about the root build's poll budget (checked under Spec)          *)
(***************************************************************************)
RootFailureMessages == {i \in DOMAIN slack : slack[i].kind = "root_failed"}

DownstreamPhases == {"ds_monitor", "post_ds_started", "ds_input",
                     "post_ds_input", "post_ds_warn"}

\* C20: a root build not seen finished on any of the RootPollAttempts ticks is
\* TimedOut: wait_for_build_success returns False after exactly that many
\* polls, the session posts one failure message and ends with no downstream
\* correlation.  The function returns True exactly when the first tick that
\* sees the build not running reads SUCCESS: the polling goes on only while no
\* terminal status was read, and the session reaches the downstream jobs only
\* with the root Succeeded.
C20_TimeoutAfterExactBudget ==
    /\ [](/\ (rootStatus = "TimedOut") = (attempt = RootPollAttempts)
          /\ rootStatus = "TimedOut" =>
                /\ spc \in {"post_root_fail", "done"}
                /\ "ds" \notin calls /\ dsIdx = 0
                /\ (spc = "done" /\ ~postFailed) => Posted("root_failed", "root")
          /\ spc = "post_root_fail" =>
                (rootStatus \in {"Failed", "TimedOut"} /\ RootFailureMessages = {})
          /\ Cardinality(RootFailureMessages) <= 1
          /\ spc = "root_wait" => (rootStatus \notin TerminalStatuses
                                     /\ attempt < RootPollAttempts)
          /\ rootStatus = "Succeeded" => rootCI = "success"
          /\ (spc \in DownstreamPhases \/ dsIdx > 0) => rootStatus = "Succeeded")
    /\ [][(spc = "post_root_fail") =>
            (/\ spc' = "done"
             /\ \/ slack' = Append(slack, Message("root_failed", "root"))
                \/ postFailed' /\ slack' = slack)]_vars

\* C20 witness: a root build that never finished used up the budget; the
\* failure message was delivered and the session ended with its downstream
\* jobs untouched.
C20_Witness ==
    /\ spc = "done"
    /\ rootStatus = "TimedOut"
    /\ rootCI \in {"running", "paused"}
    /\ attempt = RootPollAttempts
    /\ downstream_jobs # <<>>
    /\ Posted("root_failed", "root")
    /\ dsIdx = 0

(***************************************************************************)
(* Claims about the start of the monitoring thread (checked under SpecCmd) *)
(***************************************************************************)
DispatchFailures == {"job_not_found", "auth_failed", "access_denied",
                     "jenkins_error", "error"}

\* C26: the monitoring thread is started if and only if a submission returned
\* a queue item and the queue item gave a build within the handler's
\* InitialStartAttempts polls; at most one thread is started per request, and
\* none for a request that was rejected or whose dispatch failed.
C26_ThreadIffBuildStarted ==
    /\ threadStarted <= 1
    /\ hpc # "done" => threadStarted = 0
    /\ hpc = "done" => ((threadStarted = 1) = (queue_item /\ build.present))
    /\ build.present => (queue_item /\ watchAttempt < InitialStartAttempts)
    /\ response \in SyncRejections \cup DispatchFailures => threadStarted = 0

\* C26 witness: the build showed up on the last poll of the budget and the
\* thread was started.
C26_Witness ==
    /\ hpc = "done"
    /\ threadStarted = 1
    /\ watchAttempt = InitialStartAttempts - 1
    /\ build.present

(***************************************************************************)
(* Claims about the loop over downstream jobs (checked under Spec)         *)
(***************************************************************************)
MessagesOf(kind, target) == {k \in DOMAIN slack : slack[k] = Message(kind, target)}

\* the session is past descriptor i
Past(i) == i < dsIdx \/ spc = "done"

\* C21: a descriptor whose correlation attempts ran out is TimedOut and gets
\* exactly one warning naming its job; the root build's reported outcome stays
\* as it was and the descriptors after it are still correlated.
C21_ExhaustionWarnsAndGoesOn ==
    \A i \in DOMAIN dsState :
        (dsState[i] = "TimedOut" /\ Past(i)) =>
            /\ Cardinality(MessagesOf("ds_warning", downstream_jobs[i])) = 1
            /\ rootStatus = "Succeeded"
            /\ spc = "done" => \A j \in DOMAIN dsState : j > i => dsState[j] # "Unconfirmed"

\* C24: after check_and_handle_input returned True for a build no further
\* check or submission is made on that build: the root build is checked once,
\* a downstream build's loop ends at the first True, and each build gets at
\* most one "Submitted branch parameter" message.
C24_OneConfirmedSubmissionPerBuild ==
    /\ [](/\ Cardinality(MessagesOf("input_submitted", "root")) <= 1
          /\ \A i \in DOMAIN downstream_jobs :
                Cardinality(MessagesOf("input_submitted", downstream_jobs[i])) <= 1
          /\ spc = "post_root_input" => MessagesOf("input_submitted", "root") = {}
          /\ spc = "post_ds_input" =>
                MessagesOf("input_submitted", downstream_jobs[dsIdx]) = {})
    /\ [][/\ (spc # "root_input") => (spc' # "root_input")
          /\ (lastCheck.ret = "True") =>
                \/ lastCheck' = lastCheck
                \/ lastCheck' = NoCheck /\ (dsIdx' = dsIdx + 1 \/ spc' = "done")]_vars

\* C24 witness: the second downstream build's input was confirmed on a later
\* round of its loop, after the first downstream build's was too.
C24_Witness ==
    /\ spc = "post_ds_input"
    /\ dsIdx = 2
    /\ attempt > 0
    /\ lastCheck.ret = "True"
    /\ MessagesOf("input_submitted", downstream_jobs[1]) # {}

\* C25: the descriptors are taken one at a time in declared order: descriptor
\* k+1 is first polled only when descriptor k has timed out and had its
\* warning posted, or has been confirmed and finished its input-check loop.
C25_DescriptorsInOrder ==
    /\ [](/\ dsIdx \in 0..Len(downstream_jobs)
          /\ \A i \in DOMAIN dsState :
                /\ i > dsIdx => dsState[i] = "Unconfirmed"
                /\ i < dsIdx => dsState[i] \in {"Confirmed", "TimedOut"}
          /\ (spc = "ds_monitor") => (dsIdx > 0 /\ dsState[dsIdx] = "Unconfirmed"))
    /\ [][(dsIdx' # dsIdx \/ (spc # "ds_monitor" /\ spc' = "ds_monitor")) =>
            /\ dsIdx' = dsIdx + 1
            /\ spc' = "ds_monitor"
            /\ \/ dsIdx = 0 /\ spc = "root_wait"
               \/ /\ spc = "post_ds_warn" /\ dsState[dsIdx] = "TimedOut"
                  /\ slack' = Append(slack, Message("ds_warning", downstream_jobs[dsIdx]))
               \/ /\ spc \in {"ds_input", "post_ds_input"}
                  /\ dsState[dsIdx] = "Confirmed"]_vars

\* C25 witness: the second descriptor is being polled after the first one
\* timed out and its warning was posted.
C25_Witness ==
    /\ spc = "ds_monitor"
    /\ dsIdx = 2
    /\ attempt > 0
    /\ dsState[1] = "TimedOut"
    /\ Posted("ds_warning", downstream_jobs[1])

\* C27: the resolver submits only to a build that is running (or paused at
\* its input step); when the form does not ask for BRANCH the submission is
\* still made, with the proceed flag and the anti-forgery token and no branch.
C27_SubmitsOnlyToRunningBuild ==
    /\ []((lastCheck.submitted /\ lastCheck.form # "BRANCH") =>
            /\ lastCheck.form = "other"
            /\ lastCheck.data.proceed /\ lastCheck.data.crumb
            /\ ~lastCheck.data.has_branch /\ lastCheck.data.BRANCH = <<>>)
    /\ [][/\ (spc = "root_input" /\ lastCheck'.submitted) =>
                (rootCI' \in {"running", "paused"})
          /\ (spc = "ds_input" /\ lastCheck'.submitted) =>
                (dsCI' \in {"running", "paused"})
          /\ (spc = "root_input" /\ rootCI' \notin {"running", "paused"}) =>
                (~lastCheck'.fetched /\ lastCheck'.ret = "False")
          /\ (spc = "ds_input" /\ dsCI' \notin {"running", "paused"}) =>
                (~lastCheck'.fetched /\ lastCheck'.ret \in {"False", "none"})]_vars

\* C27 witness: a form without BRANCH was answered with a submission that
\* holds no branch and was confirmed.
C27_Witness ==
    /\ lastCheck.ret = "True"
    /\ lastCheck.form = "other"
    /\ lastCheck.data.proceed
    /\ ~lastCheck.data.has_branch

(***************************************************************************)
(* Claims about exceptions and termination of the polling loops            *)
(***************************************************************************)
\* a call of the input check after the marker was seen raised an exception
CheckRaised(c) == c.form = "raise" \/ c.status = "raise"

DescriptorSteps == CorrelationAttempts + MaxInputChecks + 3

\* steps the session spends on the root build at most
RootSteps == RootPollAttempts + 4

StepBound == RootSteps + DescriptorSteps * Len(downstream_jobs)

\* how far the session has come: every step of the thread moves it forward
Progress ==
    IF spc = "root_input" THEN 0
    ELSE IF spc = "post_root_input" THEN 1
    ELSE IF spc = "root_wait" THEN 2 + attempt
    ELSE IF spc = "post_root_fail" THEN 3 + RootPollAttempts
    ELSE IF spc = "done" THEN StepBound
    ELSE LET base == RootSteps + DescriptorSteps * (dsIdx - 1) IN
         IF spc = "ds_monitor" THEN base + attempt
         ELSE IF spc \in {"post_ds_warn", "post_ds_started"}
         THEN base + CorrelationAttempts
         ELSE IF spc = "ds_input" THEN base + CorrelationAttempts + 1 + attempt
         ELSE base + CorrelationAttempts + 1 + MaxInputChecks

\* C23: whatever the CI system answers, the session ends: each loop stays
\* within its budget (RootPollAttempts status polls, CorrelationAttempts
\* polls per descriptor, MaxInputChecks input checks per confirmed build),
\* a session that has not ended can always take its next step, every step
\* moves it forward, and the number of its steps, hence of its CI calls, is
\* bounded by a function of the number of downstream jobs.
C23_SessionTerminates ==
    /\ [](/\ spc = "done" \/ ENABLED SessionNext
          /\ spc = "root_wait" => attempt < RootPollAttempts
          /\ spc = "ds_monitor" => attempt < CorrelationAttempts
          /\ spc = "ds_input" => attempt < MaxInputChecks
          /\ Progress \in 0..StepBound)
    /\ [][Progress' > Progress]_vars

\* C23 witness: the session ended after the CI system never showed a build
\* for the last downstream job and, before that, never confirmed an input
\* submission to the first one.
C23_Witness ==
    /\ spc = "done"
    /\ Len(downstream_jobs) = 2
    /\ dsState = <<"Confirmed", "TimedOut">>
    /\ ~Posted("input_submitted", downstream_jobs[1])
    /\ Posted("ds_warning", downstream_jobs[2])
====
